---- MODULE Spec2Model ----
(***************************************************************************)
(* Model of the marketplace contract (contracts/marketplace): the Ask/Bid  *)
(* lifecycle handlers of execute.rs, the governance handlers of sudo.rs,   *)
(* the storage layout of state.rs and the helpers of helpers.rs.           *)
(* Every handler is one atomic action: the host runs one message to        *)
(* completion, and an Err result (or a panic) leaves storage untouched.    *)
(***************************************************************************)
EXTENDS Integers, Sequences, FiniteSets, TLC

(***************************************************************************)
(* Bounds of the model.                                                    *)
(***************************************************************************)
MaxPrice == 3
MaxTime == 1
MaxListings == 1
DecimalFractional == 2
MaxOperators == 3

(***************************************************************************)
(* Program constants and the small universes inputs are drawn from.        *)
(***************************************************************************)
NATIVE_DENOM == "uheart"
OtherDenom == "uatom"
Contract == "marketplace"
None == "none"

Users == {"alice", "bob"}
Sellers == {"alice"}
Collections == {"c1"}
Tokens == {"t1"}
RcvTokens == {"t1", "t2"}
Recipients == {None, "carol"}
RoyaltyAddr == "artist"
SaleTypes == {"FixedPrice", "Auction"}
Keys == Collections \X Tokens

Coin(amount, denom) == [amount |-> amount, denom |-> denom]

\* info.funds of a call: no coin, or one coin of the native or another denom
FundsInputs ==
    {<<>>} \cup {<<Coin(a, NATIVE_DENOM)>> : a \in 1..MaxPrice}
           \cup {<<Coin(1, OtherDenom)>>}

\* info.funds of a ReceiveNft call: the listing fee attached
FeeInputs ==
    {<<>>, <<Coin(1, NATIVE_DENOM)>>, <<Coin(2, NATIVE_DENOM)>>,
     <<Coin(1, OtherDenom)>>}

\* the Coin carried by AskInfo.price and UpdateAskPrice.price
PriceInputs ==
    {Coin(a, NATIVE_DENOM) : a \in 0..2} \cup {Coin(1, OtherDenom)}

\* answers of the collection contract to GetCollectionState: the query
\* fails, or reports royalty_info None, or Some royalty with a rate given as
\* atomics over DecimalFractional; the contract does not bound the rate, so
\* rates of 1 and above are answers too
QueryFailed == [royalty |-> "err", address |-> None, royalty_rate |-> 0]
NoRoyalty == [royalty |-> "none", address |-> None, royalty_rate |-> 0]
RoyaltyInfos ==
    {[royalty |-> "some", address |-> RoyaltyAddr, royalty_rate |-> r] :
        r \in 0..(DecimalFractional + 1)}
QueryResults == {QueryFailed, NoRoyalty} \cup RoyaltyInfos

\* ask_expiry as instantiated, (0, 1], and the AskInfo.expires values around it
ExpiryRanges == {[min |-> 0, max |-> 1]}
ExpiresInputs == 0..2
MinPrices == 1..2
ListingFees == {1}

\* the addresses governance registers as ask hooks
HookAddrs == {"hook1"}

\* the operator addresses, listed in the order of Addr (that of the strings)
AddrOrder == <<"operator1", "operator2", "operator3">>

OperatorAddrs == {AddrOrder[i] : i \in 1..Len(AddrOrder)}

\* the place of an address in that order
AddrRank(a) == CHOOSE i \in 1..Len(AddrOrder) : AddrOrder[i] = a

\* InstantiateMsg.operators: every list of at most MaxOperators addresses
OperatorInputs ==
    UNION {[1..n -> OperatorAddrs] : n \in 0..MaxOperators}

VARIABLES
    asks,                   \* primary namespace "asks": the stored Ask records
    asks__collection,       \* MultiIndex "asks__collection"
    asks__collection_price, \* MultiIndex "asks__collection_price"
    asks__seller,           \* MultiIndex "asks__seller"
    bids,                   \* primary namespace "bids": the stored Bid records
    params,                 \* SUDO_PARAMS
    ask_hooks,              \* ASK_HOOKS
    bid_hooks,              \* BID_HOOKS
    sale_hooks,             \* SALE_HOOKS
    now,                    \* env.block.time
    res,                    \* the last message handled and its Response
    held,                   \* bid payments received minus bank sends queued
    nft_out,                \* asset transfers queued per key since its listing
    listings                \* number of Asks stored so far

vars == <<asks, asks__collection, asks__collection_price, asks__seller, bids,
          params, ask_hooks, bid_hooks, sale_hooks, now, res, held, nft_out,
          listings>>

(***************************************************************************)
(* state.rs                                                                *)
(***************************************************************************)
ask_key(collection, token_id) == <<collection, token_id>>

bid_key(collection, token_id, bidder) == <<collection, token_id, bidder>>

\* Order::is_expired with < in place of <=
is_expired_strict(order, block_time) == order.expires_at < block_time

\* Order::is_expired
is_expired(order, block_time) == order.expires_at <= block_time

\* the storage touched by the handlers, as one value
Store ==
    [asks |-> asks,
     asks__collection |-> asks__collection,
     asks__collection_price |-> asks__collection_price,
     asks__seller |-> asks__seller,
     bids |-> bids]

AskAt(st, key) == {a \in st.asks : ask_key(a.collection, a.token_id) = key}

\* asks().may_load / asks().load of a key that holds a record
asks_load(st, key) == CHOOSE a \in AskAt(st, key) : TRUE

\* the index entries of one Ask under the three index functions of asks()
IndexEntries(a) ==
    [collection |-> <<a.collection, ask_key(a.collection, a.token_id)>>,
     collection_price |-> <<<<a.collection, a.price>>, ask_key(a.collection, a.token_id)>>,
     seller |-> <<a.seller, ask_key(a.collection, a.token_id)>>]

\* asks().remove that drops the index entries but leaves the record
asks_remove_keeps_record(st, key) ==
    LET old == AskAt(st, key) IN
    [st EXCEPT
        !.asks__collection = @ \ {IndexEntries(a).collection : a \in old},
        !.asks__collection_price = @ \ {IndexEntries(a).collection_price : a \in old},
        !.asks__seller = @ \ {IndexEntries(a).seller : a \in old}]

\* asks().remove: drops the record at the key and its index entries
asks_remove(st, key) ==
    LET old == AskAt(st, key) IN
    [st EXCEPT
        !.asks = @ \ old,
        !.asks__collection = @ \ {IndexEntries(a).collection : a \in old},
        !.asks__collection_price = @ \ {IndexEntries(a).collection_price : a \in old},
        !.asks__seller = @ \ {IndexEntries(a).seller : a \in old}]

\* asks().save that replaces the record but keeps its old index entries
asks_save_stale_index(st, key, ask) ==
    [st EXCEPT
        !.asks = (@ \ AskAt(st, key)) \cup {ask},
        !.asks__collection = @ \cup {IndexEntries(ask).collection},
        !.asks__collection_price = @ \cup {IndexEntries(ask).collection_price},
        !.asks__seller = @ \cup {IndexEntries(ask).seller}]

\* asks().save: replaces whatever is stored at the key, indices included
asks_save(st, key, ask) ==
    LET cleared == asks_remove(st, key) IN
    [cleared EXCEPT
        !.asks = @ \cup {ask},
        !.asks__collection = @ \cup {IndexEntries(ask).collection},
        !.asks__collection_price = @ \cup {IndexEntries(ask).collection_price},
        !.asks__seller = @ \cup {IndexEntries(ask).seller}]

\* bids().save that leaves a record already stored at the key as it is
bids_save_keeps_first(st, key, bid) ==
    IF \E b \in st.bids : bid_key(b.collection, b.token_id, b.bidder) = key
    THEN st
    ELSE [st EXCEPT !.bids = @ \cup {bid}]

\* bids().save
bids_save(st, key, bid) ==
    [st EXCEPT !.bids =
        {b \in @ : bid_key(b.collection, b.token_id, b.bidder) # key} \cup {bid}]

(***************************************************************************)
(* Results of the fallible calls: [ok, val] or [ok, err].                  *)
(***************************************************************************)
Good(v) == [ok |-> TRUE, val |-> v, err |-> ""]

Bad(e) == [ok |-> FALSE, val |-> 0, err |-> e]

\* cw_utils::may_pay as called in execute_set_ask
may_pay(funds, denom) ==
    IF Len(funds) = 0 THEN Good(0)
    ELSE IF Len(funds) = 1 /\ funds[1].denom = denom THEN Good(funds[1].amount)
    ELSE Bad("Payment")

\* cw_utils::must_pay as called in execute_set_bid
must_pay(funds, denom) ==
    IF Len(funds) = 0 THEN Bad("Payment")
    ELSE IF Len(funds) > 1 THEN Bad("Payment")
    ELSE IF funds[1].amount = 0 THEN Bad("Payment")
    ELSE IF funds[1].denom # denom THEN Bad("Payment")
    ELSE Good(funds[1].amount)

\* cw_utils::nonpayable as called in remove, update and accept
nonpayable(funds) == IF Len(funds) = 0 THEN Good(0) ELSE Bad("Payment")

(***************************************************************************)
(* helpers.rs                                                              *)
(***************************************************************************)
\* ExpiryRange::is_valid with the lower end of the range included
ExpiryRange_is_valid_min_included(range, expires) ==
    expires >= range.min /\ expires <= range.max

\* ExpiryRange::is_valid
ExpiryRange_is_valid(range, expires) ==
    expires > range.min /\ expires <= range.max

\* ExpiryRange::validate
ExpiryRange_validate(range) == ~(range.min > range.max)

RECURSIVE sort(_)
\* Vec::sort: the elements in ascending order, equal ones kept
sort(v) ==
    IF v = <<>> THEN <<>>
    ELSE LET rest == sort(Tail(v))
             below == SelectSeq(rest, LAMBDA a : AddrRank(a) < AddrRank(Head(v)))
             above == SelectSeq(rest, LAMBDA a : AddrRank(a) >= AddrRank(Head(v)))
         IN below \o <<Head(v)>> \o above

RECURSIVE dedup(_)
\* Vec::dedup: of consecutive equal elements all but the first are removed
dedup(v) ==
    IF Len(v) <= 1 THEN v
    ELSE IF v[1] = v[2] THEN dedup(Tail(v))
    ELSE <<v[1]>> \o dedup(Tail(v))

\* map_validate without the sort
map_validate_unsorted(addresses) == dedup(addresses)

\* map_validate on addresses that addr_validate accepts
map_validate(addresses) == dedup(sort(addresses))

(***************************************************************************)
(* execute.rs: instructions, hooks, payout                                 *)
(***************************************************************************)
BankSend(to_address, amount) ==
    [type |-> "bank_send", to |-> to_address, amount |-> amount]

TransferNft(collection, token_id, recipient) ==
    [type |-> "transfer_nft", to |-> collection, token_id |-> token_id,
     recipient |-> recipient]

\* SubMsg::reply_on_error(WasmMsg::Execute{contract_addr: h, ..}, id)
HookCall(h, id, payload) ==
    [type |-> "hook", to |-> h, reply_on |-> "error", id |-> id,
     payload |-> payload]

\* HookReply discriminants
HookReply_Ask == 1
HookReply_Sale == 2
HookReply_Bid == 3
HookReply_CollectionBid == 4

\* reply with the hook's error handed on to the host
reply_propagates_error(id, error) ==
    [ok |-> FALSE, attributes |-> <<>>]

\* reply: for each HookReply a Response with two attributes and nothing
\* else; HookReply::from panics on any other id
reply(id, error) ==
    IF id = HookReply_Ask THEN
        [ok |-> TRUE, attributes |-> <<[action |-> "ask-hook-failed", error |-> error]>>]
    ELSE IF id = HookReply_Sale THEN
        [ok |-> TRUE, attributes |-> <<[action |-> "sale-hook-failed", error |-> error]>>]
    ELSE IF id = HookReply_Bid THEN
        [ok |-> TRUE, attributes |-> <<[action |-> "bid-hook-failed", error |-> error]>>]
    ELSE IF id = HookReply_CollectionBid THEN
        [ok |-> TRUE,
         attributes |-> <<[action |-> "collection-bid-hook-failed", error |-> error]>>]
    ELSE [ok |-> FALSE, attributes |-> <<>>]

\* Hooks::prepare_hooks: one instruction per registered hook, in order
prepare_ask_hook(hooks, ask, action) ==
    [i \in 1..Len(hooks) |->
        HookCall(hooks[i], HookReply_Ask, [ask |-> ask, action |-> action])]

prepare_sale_hook(hooks, ask, buyer) ==
    [i \in 1..Len(hooks) |->
        HookCall(hooks[i], HookReply_Sale,
                 [collection |-> ask.collection, token_id |-> ask.token_id,
                  price |-> ask.price, seller |-> ask.seller, buyer |-> buyer])]

prepare_bid_hook(hooks, bid, action) ==
    [i \in 1..Len(hooks) |->
        HookCall(hooks[i], HookReply_Bid, [bid |-> bid, action |-> action])]

\* Uint128 * Decimal rounded up instead of down
MulDecimal_ceil(amount, atomics) ==
    (amount * atomics + DecimalFractional - 1) \div DecimalFractional

\* Uint128 * Decimal: floor(amount * atomics / DECIMAL_FRACTIONAL)
MulDecimal(amount, atomics) == (amount * atomics) \div DecimalFractional

\* payout that addresses the seller share to the royalty recipient
payout_share_to_royalty(payment, payment_recipient, query) ==
    IF query.royalty = "err" THEN [ok |-> FALSE, err |-> "Std", messages |-> <<>>, events |-> <<>>]
    ELSE IF query.royalty = "none" THEN
        [ok |-> TRUE, err |-> "",
         messages |-> <<BankSend(payment_recipient, payment)>>,
         events |-> <<>>]
    ELSE
        LET amount == MulDecimal(payment, query.royalty_rate) IN
        IF payment < amount THEN
            [ok |-> FALSE, err |-> "Std", messages |-> <<>>, events |-> <<>>]
        ELSE IF query.royalty_rate > DecimalFractional THEN
            [ok |-> FALSE, err |-> "Panic", messages |-> <<>>, events |-> <<>>]
        ELSE
            [ok |-> TRUE, err |-> "",
             messages |->
                <<BankSend(query.address, amount),
                  BankSend(query.address,
                           MulDecimal(payment, DecimalFractional - query.royalty_rate))>>,
             events |-> <<[ty |-> "royalty-payout", amount |-> amount,
                           recipient |-> query.address]>>]

\* payout that sends the seller side the whole payment next to the royalty
payout_seller_unreduced(payment, payment_recipient, query) ==
    IF query.royalty = "err" THEN [ok |-> FALSE, err |-> "Std", messages |-> <<>>, events |-> <<>>]
    ELSE IF query.royalty = "none" THEN
        [ok |-> TRUE, err |-> "",
         messages |-> <<BankSend(payment_recipient, payment)>>,
         events |-> <<>>]
    ELSE
        LET amount == MulDecimal(payment, query.royalty_rate) IN
        IF payment < amount THEN
            [ok |-> FALSE, err |-> "Std", messages |-> <<>>, events |-> <<>>]
        ELSE IF query.royalty_rate > DecimalFractional THEN
            [ok |-> FALSE, err |-> "Panic", messages |-> <<>>, events |-> <<>>]
        ELSE
            [ok |-> TRUE, err |-> "",
             messages |->
                <<BankSend(query.address, amount),
                  BankSend(payment_recipient, payment)>>,
             events |-> <<[ty |-> "royalty-payout", amount |-> amount,
                           recipient |-> query.address]>>]

\* payout: the bank sends of one settlement, or the error that aborts it
payout(payment, payment_recipient, query) ==
    IF query.royalty = "err" THEN [ok |-> FALSE, err |-> "Std", messages |-> <<>>, events |-> <<>>]
    ELSE IF query.royalty = "none" THEN
        [ok |-> TRUE, err |-> "",
         messages |-> <<BankSend(payment_recipient, payment)>>,
         events |-> <<>>]
    ELSE
        LET amount == MulDecimal(payment, query.royalty_rate) IN
        IF payment < amount THEN
            [ok |-> FALSE, err |-> "Std", messages |-> <<>>, events |-> <<>>]
        ELSE IF query.royalty_rate > DecimalFractional THEN
            \* Decimal::one() - royalty_rate overflows: the handler aborts
            [ok |-> FALSE, err |-> "Panic", messages |-> <<>>, events |-> <<>>]
        ELSE
            [ok |-> TRUE, err |-> "",
             messages |->
                <<BankSend(query.address, amount),
                  BankSend(payment_recipient,
                           MulDecimal(payment, DecimalFractional - query.royalty_rate))>>,
             events |-> <<[ty |-> "royalty-payout", amount |-> amount,
                           recipient |-> query.address]>>]

\* finalize_sale that pays out but queues no asset transfer
finalize_sale_no_transfer(hooks, ask, price, buyer, query) ==
    LET paid == payout(price,
                       IF ask.funds_recipient = None THEN ask.seller
                       ELSE ask.funds_recipient,
                       query) IN
    IF ~paid.ok THEN paid
    ELSE
        [ok |-> TRUE, err |-> "",
         messages |-> paid.messages \o prepare_sale_hook(hooks, ask, buyer),
         events |-> paid.events
                    \o <<[ty |-> "finalize-sale", collection |-> ask.collection,
                          token_id |-> ask.token_id, seller |-> ask.seller,
                          buyer |-> buyer, price |-> price]>>]

\* finalize_sale that queues the sale notifications before the asset transfer
finalize_sale_notifies_first(hooks, ask, price, buyer, query) ==
    LET paid == payout(price,
                       IF ask.funds_recipient = None THEN ask.seller
                       ELSE ask.funds_recipient,
                       query) IN
    IF ~paid.ok THEN paid
    ELSE
        [ok |-> TRUE, err |-> "",
         messages |-> paid.messages
                      \o prepare_sale_hook(hooks, ask, buyer)
                      \o <<TransferNft(ask.collection, ask.token_id, buyer)>>,
         events |-> paid.events
                    \o <<[ty |-> "finalize-sale", collection |-> ask.collection,
                          token_id |-> ask.token_id, seller |-> ask.seller,
                          buyer |-> buyer, price |-> price]>>]

\* finalize_sale: what it appends to the Response it is handed
finalize_sale(hooks, ask, price, buyer, query) ==
    LET paid == payout(price,
                       IF ask.funds_recipient = None THEN ask.seller
                       ELSE ask.funds_recipient,
                       query) IN
    IF ~paid.ok THEN paid
    ELSE
        [ok |-> TRUE, err |-> "",
         messages |-> paid.messages
                      \o <<TransferNft(ask.collection, ask.token_id, buyer)>>
                      \o prepare_sale_hook(hooks, ask, buyer),
         events |-> paid.events
                    \o <<[ty |-> "finalize-sale", collection |-> ask.collection,
                          token_id |-> ask.token_id, seller |-> ask.seller,
                          buyer |-> buyer, price |-> price]>>]

\* price_validate without the comparison of the denomination
price_validate_any_denom(prm, price) ==
    IF price.amount = 0 THEN "InvalidPrice"
    ELSE IF price.amount < prm.min_price THEN "PriceTooSmall"
    ELSE ""

\* price_validate without the comparison against min_price
price_validate_no_floor(prm, price) ==
    IF price.amount = 0 \/ price.denom # NATIVE_DENOM THEN "InvalidPrice"
    ELSE ""

\* price_validate: "" when the price passes, else the error
price_validate(prm, price) ==
    IF price.amount = 0 \/ price.denom # NATIVE_DENOM THEN "InvalidPrice"
    ELSE IF price.amount < prm.min_price THEN "PriceTooSmall"
    ELSE ""

\* only_owner_nft with its comparison inverted
only_owner_nft_inverted(sender, owner) == owner # sender

\* only_owner_nft
only_owner_nft(sender, owner) == owner = sender

(***************************************************************************)
(* Handler outcomes: the Result a handler returns together with the        *)
(* storage as the handler has written it by then.                          *)
(***************************************************************************)
Ok(st, messages, events) ==
    [ok |-> TRUE, err |-> "", st |-> st, messages |-> messages, events |-> events]

Err(st, e) ==
    [ok |-> FALSE, err |-> e, st |-> st, messages |-> <<>>, events |-> <<>>]

\* the Ask of execute_set_ask with max_bid opened at the list price
NewAsk_bid_at_price(prm, contract, block_time, rcv_sender, ask_info) ==
    [sale_type |-> ask_info.sale_type,
     collection |-> ask_info.collection,
     token_id |-> ask_info.token_id,
     seller |-> rcv_sender,
     price |-> ask_info.price.amount,
     funds_recipient |-> ask_info.funds_recipient,
     expires_at |-> block_time + ask_info.expires,
     max_bidder |-> contract,
     max_bid |-> ask_info.price.amount]

\* the Ask of execute_set_ask with the seller as its first max_bidder
NewAsk_seller_as_bidder(prm, contract, block_time, rcv_sender, ask_info) ==
    [sale_type |-> ask_info.sale_type,
     collection |-> ask_info.collection,
     token_id |-> ask_info.token_id,
     seller |-> rcv_sender,
     price |-> ask_info.price.amount,
     funds_recipient |-> ask_info.funds_recipient,
     expires_at |-> block_time + ask_info.expires,
     max_bidder |-> rcv_sender,
     max_bid |-> prm.min_price]

\* the Ask that execute_set_ask builds: seller is rcv_msg.sender, max_bidder
\* the contract's own address, max_bid the min_price in force
NewAsk(prm, contract, block_time, rcv_sender, ask_info) ==
    [sale_type |-> ask_info.sale_type,
     collection |-> ask_info.collection,
     token_id |-> ask_info.token_id,
     seller |-> rcv_sender,
     price |-> ask_info.price.amount,
     funds_recipient |-> ask_info.funds_recipient,
     expires_at |-> block_time + ask_info.expires,
     max_bidder |-> contract,
     max_bid |-> prm.min_price]

\* the listing fee test of execute_set_ask accepting an overpayment
FeeMismatch_underpaid(listing_fee, prm) == listing_fee < prm.listing_fee

\* the listing fee test of execute_set_ask
FeeMismatch(listing_fee, prm) == listing_fee # prm.listing_fee

\* execute_set_ask
execute_set_ask(st, prm, hooks, block_time, funds, rcv_sender, rcv_token_id, ask_info) ==
    LET listing_fee == may_pay(funds, NATIVE_DENOM)
        ask == NewAsk(prm, Contract, block_time, rcv_sender, ask_info)
    IN
    IF rcv_token_id # ask_info.token_id THEN Err(st, "IdMismatch")
    ELSE IF price_validate(prm, ask_info.price) # "" THEN
        Err(st, price_validate(prm, ask_info.price))
    ELSE IF ~ExpiryRange_is_valid(prm.ask_expiry, ask_info.expires) THEN
        Err(st, "InvalidExpirationRange")
    ELSE IF ~listing_fee.ok THEN Err(st, listing_fee.err)
    ELSE IF FeeMismatch(listing_fee.val, prm) THEN Err(st, "InvalidListingFee")
    ELSE
        Ok(asks_save(st, ask_key(ask.collection, ask.token_id), ask),
           prepare_ask_hook(hooks.ask, ask, "Create"),
           <<[ty |-> "set-ask", collection |-> ask.collection,
              token_id |-> ask.token_id]>>)

\* the sale type test of execute_remove_ask against the wrong variant
NotRemovable_wrong_type(ask) == ask.sale_type = "FixedPrice"

\* the sale type execute_remove_ask refuses to withdraw
NotRemovable(ask) == ask.sale_type = "Auction"

\* execute_remove_ask
execute_remove_ask(st, hooks, sender, funds, collection, token_id) ==
    LET key == ask_key(collection, token_id)
        ask == asks_load(st, key)
    IN
    IF ~nonpayable(funds).ok THEN Err(st, "Payment")
    ELSE IF AskAt(st, key) = {} THEN Err(st, "Std")
    ELSE IF ~only_owner_nft(sender, ask.seller) THEN Err(st, "UnauthorizedOwner")
    ELSE IF NotRemovable(ask) THEN Err(st, "AuctionNotRemove")
    ELSE
        Ok(asks_remove(st, key),
           <<TransferNft(ask.collection, ask.token_id, ask.seller)>>
               \o prepare_ask_hook(hooks.ask, ask, "Delete"),
           <<[ty |-> "remove-ask", collection |-> collection,
              token_id |-> token_id]>>)

\* the re-priced Ask with the high bid reset to the new price as well
Repriced_resets_bid(ask, price) ==
    [ask EXCEPT !.price = price.amount, !.max_bid = price.amount]

\* the Ask as execute_update_ask_price saves it: ask.price = price.amount
Repriced(ask, price) == [ask EXCEPT !.price = price.amount]

\* execute_update_ask_price
execute_update_ask_price(st, prm, hooks, block_time, sender, funds, collection, token_id, price) ==
    LET key == ask_key(collection, token_id)
        ask == asks_load(st, key)
        updated == Repriced(ask, price)
    IN
    IF ~nonpayable(funds).ok THEN Err(st, "Payment")
    ELSE IF price_validate(prm, price) # "" THEN Err(st, price_validate(prm, price))
    ELSE IF AskAt(st, key) = {} THEN Err(st, "Std")
    ELSE IF ~only_owner_nft(sender, ask.seller) THEN Err(st, "UnauthorizedOwner")
    ELSE IF is_expired(ask, block_time) THEN Err(st, "AskExpired")
    ELSE
        Ok(asks_save(st, key, updated),
           prepare_ask_hook(hooks.ask, updated, "Update"),
           <<[ty |-> "update-ask", collection |-> collection,
              token_id |-> token_id]>>)

\* the test of the bid with < in place of <=
BidTooLow_strict(bid_price, ask) == bid_price < ask.max_bid

\* the auction branch's test of the bid against the running high bid
BidTooLow(bid_price, ask) == bid_price <= ask.max_bid

\* the stored Ask with max_bid taken from the list price, not from the bid
RaisedAsk_list_price(ask, bid_price, sender) ==
    [ask EXCEPT !.max_bid = ask.price, !.max_bidder = sender]

\* the Ask as the auction branch stores it for an accepted bid
RaisedAsk(ask, bid_price, sender) ==
    [ask EXCEPT !.max_bid = bid_price, !.max_bidder = sender]

\* the fixed-price test that lets an overpayment through
PriceMismatch_underpaid(ask, bid_price) == ask.price > bid_price

\* the fixed-price branch's test of the payment against the list price
PriceMismatch(ask, bid_price) == ask.price # bid_price

\* the refund of the list price instead of the outbid amount
Refund_list_price(ask) ==
    IF ask.max_bidder # Contract
    THEN <<BankSend(ask.max_bidder, ask.price)>> ELSE <<>>

\* the refund the auction branch queues for the bidder it replaces
Refund(ask) ==
    IF ask.max_bidder # Contract
    THEN <<BankSend(ask.max_bidder, ask.max_bid)>> ELSE <<>>

\* the test of an auction bid against the running high bid in the place
\* of the list price
BelowReserve_max_bid(ask, bid_price) ==
    ask.sale_type = "Auction" /\ ask.max_bid > bid_price

\* execute_set_bid's test of an auction bid against the Ask's list price
BelowReserve(ask, bid_price) ==
    ask.sale_type = "Auction" /\ ask.price > bid_price

\* execute_set_bid
execute_set_bid(st, prm, hooks, block_time, sender, funds, collection, token_id, query) ==
    LET paid == must_pay(funds, NATIVE_DENOM)
        bid_price == paid.val
        key == ask_key(collection, token_id)
        ask == asks_load(st, key)
        bid == [collection |-> collection, token_id |-> token_id,
                bidder |-> sender, price |-> bid_price]
        sale == finalize_sale(hooks.sale, ask, bid_price, sender, query)
        refund == Refund(ask)
        raised == RaisedAsk(ask, bid_price, sender)
        event == <<[ty |-> "set-bid", collection |-> collection,
                    token_id |-> token_id]>>
    IN
    IF ~paid.ok THEN Err(st, paid.err)
    ELSE IF bid_price < prm.min_price THEN Err(st, "PriceTooSmall")
    ELSE IF AskAt(st, key) = {} THEN Err(st, "AskNotFound")
    ELSE IF is_expired(ask, block_time) THEN Err(st, "AskExpired")
    ELSE IF BelowReserve(ask, bid_price) THEN Err(st, "PriceTooSmall")
    ELSE IF ask.sale_type = "FixedPrice" THEN
        IF PriceMismatch(ask, bid_price) THEN Err(st, "InvalidPrice")
        \* asks().remove precedes finalize_sale
        ELSE IF ~sale.ok THEN Err(asks_remove(st, key), sale.err)
        ELSE Ok(asks_remove(st, key), sale.messages, sale.events \o event)
    ELSE
        IF BidTooLow(bid_price, ask) THEN Err(st, "InsufficientFundsSend")
        ELSE Ok(bids_save(asks_save(st, key, raised),
                          bid_key(collection, token_id, sender), bid),
                refund \o prepare_bid_hook(hooks.bid, bid, "Create"),
                event)

\* the settlement run at the list price instead of the high bid
AcceptSale_list_price(hooks, existing_ask, query) ==
    finalize_sale(hooks, existing_ask, existing_ask.price,
                  existing_ask.max_bidder, query)

\* the settlement execute_accept_bid runs for an Ask with a real bidder
AcceptSale(hooks, existing_ask, query) ==
    finalize_sale(hooks, existing_ask, existing_ask.max_bid,
                  existing_ask.max_bidder, query)

\* execute_accept_bid
execute_accept_bid(st, hooks, block_time, sender, funds, collection, token_id, query) ==
    LET key == ask_key(collection, token_id)
        existing_ask == asks_load(st, key)
        sale == AcceptSale(hooks.sale, existing_ask, query)
        event == <<[ty |-> "accept-bid", collection |-> collection,
                    token_id |-> token_id, buyer |-> existing_ask.max_bidder]>>
    IN
    IF ~nonpayable(funds).ok THEN Err(st, "Payment")
    ELSE IF AskAt(st, key) = {} THEN Err(st, "Panic")
    ELSE IF ~only_owner_nft(sender, existing_ask.seller) THEN
        Err(st, "UnauthorizedOwner")
    ELSE IF ~is_expired(existing_ask, block_time) THEN Err(st, "AuctionNotEnded")
    ELSE IF existing_ask.max_bidder # Contract THEN
        \* asks().remove precedes finalize_sale
        IF ~sale.ok THEN Err(asks_remove(st, key), sale.err)
        ELSE Ok(asks_remove(st, key), sale.messages, sale.events \o event)
    ELSE
        \* res.clone().add_message(..) builds the transfer on a copy that is
        \* dropped: the Response returned carries no instruction
        Ok(asks_remove(st, key), <<>>, event)

(***************************************************************************)
(* sudo.rs                                                                 *)
(***************************************************************************)
Some(v) == [some |-> TRUE, val |-> v]

unwrap_or(opt, default) == IF opt.some THEN opt.val ELSE default

NoRange == [some |-> FALSE, val |-> [min |-> 0, max |-> 0]]
NoAmount == [some |-> FALSE, val |-> 0]

\* sudo_update_params: the operators field of the message is ignored
sudo_update_params(prm, param_info) ==
    IF param_info.ask_expiry.some /\ ~ExpiryRange_validate(param_info.ask_expiry.val)
    THEN [ok |-> FALSE, err |-> "InvalidExpiry", params |-> prm]
    ELSE IF param_info.bid_expiry.some /\ ~ExpiryRange_validate(param_info.bid_expiry.val)
    THEN [ok |-> FALSE, err |-> "InvalidExpiry", params |-> prm]
    ELSE [ok |-> TRUE, err |-> "",
          params |-> [prm EXCEPT
              !.ask_expiry = unwrap_or(param_info.ask_expiry, @),
              !.bid_expiry = unwrap_or(param_info.bid_expiry, @),
              !.min_price = unwrap_or(param_info.min_price, @),
              !.listing_fee = unwrap_or(param_info.listing_fee, @)]]

\* sudo_add_operator
sudo_add_operator(prm, operator) ==
    IF ~(\E i \in 1..Len(prm.operators) : prm.operators[i] = operator)
    THEN [ok |-> TRUE, err |-> "",
          params |-> [prm EXCEPT !.operators = Append(@, operator)]]
    ELSE [ok |-> FALSE, err |-> "OperatorAlreadyRegistered", params |-> prm]

\* sudo_remove_operator
sudo_remove_operator(prm, operator) ==
    IF \E i \in 1..Len(prm.operators) : prm.operators[i] = operator
    THEN LET i == CHOOSE j \in 1..Len(prm.operators) :
                      /\ prm.operators[j] = operator
                      /\ \A k \in 1..(j - 1) : prm.operators[k] # operator
         IN [ok |-> TRUE, err |-> "",
             params |-> [prm EXCEPT !.operators =
                            SubSeq(@, 1, i - 1) \o SubSeq(@, i + 1, Len(@))]]
    ELSE [ok |-> FALSE, err |-> "OperatorNotRegistered", params |-> prm]

\* Hooks::add_hook as called by sudo_add_ask_hook
sudo_add_ask_hook(hooks, hook) ==
    IF \E i \in 1..Len(hooks) : hooks[i] = hook
    THEN [ok |-> FALSE, err |-> "HookAlreadyRegistered", hooks |-> hooks]
    ELSE [ok |-> TRUE, err |-> "", hooks |-> Append(hooks, hook)]

\* Hooks::remove_hook as called by sudo_remove_ask_hook
sudo_remove_ask_hook(hooks, hook) ==
    IF \E i \in 1..Len(hooks) : hooks[i] = hook
    THEN [ok |-> TRUE, err |-> "",
          hooks |-> SelectSeq(hooks, LAMBDA h : h # hook)]
    ELSE [ok |-> FALSE, err |-> "HookNotRegistered", hooks |-> hooks]

(***************************************************************************)
(* The state machine                                                       *)
(***************************************************************************)
Hooks == [ask |-> ask_hooks, bid |-> bid_hooks, sale |-> sale_hooks]

BlankArg ==
    [sale_type |-> None, price |-> Coin(0, NATIVE_DENOM),
     funds_recipient |-> None, expires |-> 0, rcv_sender |-> None]

BlankRes(op) ==
    [op |-> op, ok |-> TRUE, err |-> "", sender |-> None, key |-> <<None, None>>,
     funds |-> <<>>, arg |-> BlankArg, query |-> NoRoyalty,
     messages |-> <<>>, events |-> <<>>, replies |-> <<>>, operators |-> <<>>]

RECURSIVE SumBank(_)
\* total amount of the bank sends of an instruction bundle
SumBank(messages) ==
    IF messages = <<>> THEN 0
    ELSE (IF Head(messages).type = "bank_send" THEN Head(messages).amount ELSE 0)
         + SumBank(Tail(messages))

\* number of asset transfers of token key[2] of collection key[1] in a bundle
TransfersOf(messages, key) ==
    Cardinality({i \in 1..Len(messages) :
        /\ messages[i].type = "transfer_nft"
        /\ messages[i].to = key[1]
        /\ messages[i].token_id = key[2]})

\* the instantiate message of the model: ask_expiry (0, 1],
\* min_price 1, listing_fee 1, one operator, one sale_hook
Init ==
    /\ asks = {}
    /\ asks__collection = {}
    /\ asks__collection_price = {}
    /\ asks__seller = {}
    /\ bids = {}
    /\ params = [ask_expiry |-> [min |-> 0, max |-> 1],
                 bid_expiry |-> [min |-> 0, max |-> 1],
                 operators |-> <<"operator1">>,
                 min_price |-> 1,
                 listing_fee |-> 1]
    /\ ask_hooks = <<>>
    /\ bid_hooks = <<>>
    /\ sale_hooks = <<"hook1">>
    /\ now = 0
    /\ res = BlankRes("instantiate")
    /\ held = 0
    /\ nft_out = [k \in Keys |-> 0]
    /\ listings = 0

\* the writes of a call that ends in an error, kept
Rollback_keeps_writes(before, written) == written

\* the host's transaction: the writes of a call that returns Err or panics,
\* or whose submessage error is not caught, are discarded
Rollback(before, written) == before

\* the hook contracts whose execution may fail
UnreliableHooks == {"hook2", "hook3"}

\* the submessages of a response that may fail when the host runs them
MayFail(messages) ==
    {i \in 1..Len(messages) :
        messages[i].type = "hook" /\ messages[i].to \in UnreliableHooks}

\* the host runs the submessages of a response: the error of a failed
\* reply_on_error submessage goes to reply, and the call keeps its result
\* when reply returns Ok; any other failure fails the whole call
Dispatch(out, failed) ==
    LET replies == [i \in 1..Len(out.messages) |->
                      IF i \notin failed THEN [ok |-> TRUE, attributes |-> <<>>]
                      ELSE IF out.messages[i].reply_on = "error"
                      THEN reply(out.messages[i].id, "hook error")
                      ELSE [ok |-> FALSE, attributes |-> <<>>]]
    IN
    IF \E i \in failed : ~replies[i].ok
    THEN [ok |-> FALSE, err |-> "SubMsg", st |-> out.st,
          messages |-> <<>>, events |-> <<>>, replies |-> <<>>]
    ELSE [ok |-> out.ok, err |-> out.err, st |-> out.st,
          messages |-> out.messages, events |-> out.events,
          replies |-> [i \in 1..Len(out.messages) |-> replies[i].attributes]]

\* commit the outcome of a call and record it
Commit(op, sender, key, funds, arg, query, out) ==
    LET st == IF out.ok THEN out.st ELSE Rollback(Store, out.st) IN
    /\ asks' = st.asks
    /\ asks__collection' = st.asks__collection
    /\ asks__collection_price' = st.asks__collection_price
    /\ asks__seller' = st.asks__seller
    /\ bids' = st.bids
    /\ res' = IF out.ok
               THEN [op |-> op, ok |-> TRUE, err |-> "", sender |-> sender,
                     key |-> key, funds |-> funds, arg |-> arg, query |-> query,
                     messages |-> out.messages, events |-> out.events,
                     replies |-> out.replies, operators |-> <<>>]
               ELSE [BlankRes(op) EXCEPT
                        !.ok = FALSE, !.err = out.err, !.key = key,
                        !.funds = IF op = "set_bid" THEN funds ELSE <<>>]
    /\ held' = held
               + (IF op = "set_bid" /\ out.ok THEN funds[1].amount ELSE 0)
               - SumBank(out.messages)
    /\ nft_out' = [k \in Keys |->
                     IF op = "set_ask" /\ out.ok /\ k = key THEN 0
                     ELSE nft_out[k] + TransfersOf(out.messages, k)]
    /\ listings' = IF op = "set_ask" /\ out.ok THEN listings + 1 ELSE listings
    /\ UNCHANGED <<params, ask_hooks, bid_hooks, sale_hooks, now>>

\* one execute call: the handler's outcome, then the host's run of the
\* submessages it returned
Apply(op, sender, key, funds, arg, query, out) ==
    \E failed \in SUBSET MayFail(out.messages) :
        LET done == Dispatch(out, failed) IN
        Commit(op, sender, key, funds, arg, query, done)

\* ExecuteMsg::ReceiveNft.  The checks of execute_set_ask run in a fixed
\* order and a rejected call records none of its inputs, so an input that
\* the call fails before reading is not enumerated.
ListNft(cap) ==
    /\ listings < cap
    /\ \E collection \in Collections, token_id \in Tokens, rcv_token_id \in RcvTokens :
       \E price \in (IF rcv_token_id # token_id
                     THEN {Coin(1, NATIVE_DENOM)} ELSE PriceInputs) :
       \E expires \in (IF rcv_token_id # token_id \/ price_validate(params, price) # ""
                       THEN {0} ELSE ExpiresInputs) :
       \E funds \in (IF \/ rcv_token_id # token_id
                         \/ price_validate(params, price) # ""
                         \/ ~ExpiryRange_is_valid(params.ask_expiry, expires)
                     THEN {<<>>} ELSE FeeInputs) :
       \E sender \in (IF may_pay(funds, NATIVE_DENOM) # Good(params.listing_fee)
                      THEN {Contract} ELSE Collections \cup {"bob"}) :
       \E rcv_sender \in (IF sender = Contract THEN {"alice"} ELSE Sellers),
          sale_type \in (IF sender = Contract THEN {"FixedPrice"} ELSE SaleTypes),
          funds_recipient \in (IF sender = Contract THEN {None} ELSE Recipients) :
        LET ask_info == [sale_type |-> sale_type, collection |-> collection,
                         token_id |-> token_id, price |-> price,
                         funds_recipient |-> funds_recipient, expires |-> expires]
            out == execute_set_ask(Store, params, Hooks, now, funds, rcv_sender,
                                   rcv_token_id, ask_info)
        IN
        Apply("set_ask", sender, ask_key(collection, token_id), funds,
              [sale_type |-> sale_type, price |-> price,
               funds_recipient |-> funds_recipient, expires |-> expires,
               rcv_sender |-> rcv_sender],
              NoRoyalty, out)

\* info.funds of a call to a handler that starts with nonpayable
NoFundsInputs == {<<>>, <<Coin(1, NATIVE_DENOM)>>}

\* the senders worth telling apart for a call with these funds: nonpayable
\* rejects a funded call before the sender is looked at
SendersFor(funds) == IF Len(funds) = 0 THEN Users ELSE {"alice"}

ReceiveNft == ListNft(MaxListings)

\* ExecuteMsg::ReceiveNft where one more listing than in Spec is allowed
ReceiveNftAgain == ListNft(MaxListings + 1)

\* ExecuteMsg::RemoveAsk
RemoveAsk ==
    \E funds \in NoFundsInputs, key \in Keys :
      \E sender \in SendersFor(funds) :
        Apply("remove_ask", sender, key, funds, BlankArg, NoRoyalty,
              execute_remove_ask(Store, Hooks, sender, funds, key[1], key[2]))

\* ExecuteMsg::UpdateAskPrice
UpdateAskPrice ==
    \E funds \in NoFundsInputs, key \in Keys :
      \E price \in (IF Len(funds) = 0 THEN PriceInputs ELSE {Coin(1, NATIVE_DENOM)}) :
      \E sender \in (IF price_validate(params, price) = ""
                     THEN SendersFor(funds) ELSE {"alice"}) :
        Apply("update_ask_price", sender, key, funds,
              [BlankArg EXCEPT !.price = price], NoRoyalty,
              execute_update_ask_price(Store, params, Hooks, now, sender, funds,
                                       key[1], key[2], price))

\* ExecuteMsg::SetBid.  No check of execute_set_bid reads the sender, and
\* the collection is queried only by a settlement: a call that fails for
\* sender alice and a collection without royalty fails for every other
\* sender and answer in the same way, and is enumerated once.
SetBid ==
    \E funds \in FundsInputs, key \in Keys :
      LET probe == execute_set_bid(Store, params, Hooks, now, "alice", funds,
                                   key[1], key[2], NoRoyalty)
          settles == AskAt(Store, key) # {}
                     /\ asks_load(Store, key).sale_type = "FixedPrice"
      IN
      \E sender \in (IF probe.ok THEN Users ELSE {"alice"}),
         query \in (IF probe.ok /\ settles THEN QueryResults ELSE {NoRoyalty}) :
        Apply("set_bid", sender, key, funds, BlankArg, query,
              execute_set_bid(Store, params, Hooks, now, sender, funds,
                              key[1], key[2], query))

\* ExecuteMsg::AcceptBid.  The collection is queried only when the call
\* reaches the settlement of a real bid.
AcceptBid ==
    \E funds \in NoFundsInputs, key \in Keys :
      \E sender \in SendersFor(funds) :
      LET probe == execute_accept_bid(Store, Hooks, now, sender, funds,
                                      key[1], key[2], NoRoyalty)
          settles == AskAt(Store, key) # {}
                     /\ asks_load(Store, key).max_bidder # Contract
      IN
      \E query \in (IF probe.ok /\ settles THEN QueryResults ELSE {NoRoyalty}) :
        Apply("accept_bid", sender, key, funds, BlankArg, query,
              execute_accept_bid(Store, Hooks, now, sender, funds,
                                 key[1], key[2], query))

\* the SudoMsg::UpdateParams messages of the model: nothing set, an
\* ask_expiry with min > max, a new min_price, or a new ask_expiry and
\* listing_fee
ParamInputs ==
    LET nothing == [ask_expiry |-> NoRange, bid_expiry |-> NoRange,
                    min_price |-> NoAmount, listing_fee |-> NoAmount]
    IN
    {nothing,
     [nothing EXCEPT !.ask_expiry = Some([min |-> 2, max |-> 1])]}
    \cup {[nothing EXCEPT !.min_price = Some(m)] : m \in MinPrices}
    \cup {[nothing EXCEPT !.ask_expiry = Some(r), !.listing_fee = Some(f)] :
            r \in ExpiryRanges, f \in ListingFees}

\* SudoMsg::UpdateParams
UpdateParams ==
    \E param_info \in ParamInputs :
        LET out == sudo_update_params(params, param_info) IN
        /\ params' = out.params
        /\ res' = [BlankRes("sudo_update_params") EXCEPT
                      !.ok = out.ok, !.err = out.err]
        /\ UNCHANGED <<asks, asks__collection, asks__collection_price,
                       asks__seller, bids, ask_hooks, bid_hooks, sale_hooks,
                       now, held, nft_out, listings>>

\* SudoMsg::AddAskHook
AddAskHook ==
    \E hook \in HookAddrs :
        LET out == sudo_add_ask_hook(ask_hooks, hook) IN
        /\ ask_hooks' = out.hooks
        /\ res' = [BlankRes("sudo_add_ask_hook") EXCEPT
                      !.ok = out.ok, !.err = out.err]
        /\ UNCHANGED <<asks, asks__collection, asks__collection_price,
                       asks__seller, bids, params, bid_hooks, sale_hooks,
                       now, held, nft_out, listings>>

\* SudoMsg::RemoveAskHook
RemoveAskHook ==
    \E hook \in HookAddrs :
        LET out == sudo_remove_ask_hook(ask_hooks, hook) IN
        /\ ask_hooks' = out.hooks
        /\ res' = [BlankRes("sudo_remove_ask_hook") EXCEPT
                      !.ok = out.ok, !.err = out.err]
        /\ UNCHANGED <<asks, asks__collection, asks__collection_price,
                       asks__seller, bids, params, bid_hooks, sale_hooks,
                       now, held, nft_out, listings>>

\* SudoMsg::AddOperator
AddOperator ==
    \E operator \in OperatorAddrs :
        LET out == sudo_add_operator(params, operator) IN
        /\ params' = out.params
        /\ res' = [BlankRes("sudo_add_operator") EXCEPT
                      !.ok = out.ok, !.err = out.err, !.operators = <<operator>>]
        /\ UNCHANGED <<asks, asks__collection, asks__collection_price,
                       asks__seller, bids, ask_hooks, bid_hooks, sale_hooks,
                       now, held, nft_out, listings>>

\* SudoMsg::RemoveOperator
RemoveOperator ==
    \E operator \in OperatorAddrs :
        LET out == sudo_remove_operator(params, operator) IN
        /\ params' = out.params
        /\ res' = [BlankRes("sudo_remove_operator") EXCEPT
                      !.ok = out.ok, !.err = out.err, !.operators = <<operator>>]
        /\ UNCHANGED <<asks, asks__collection, asks__collection_price,
                       asks__seller, bids, ask_hooks, bid_hooks, sale_hooks,
                       now, held, nft_out, listings>>

\* the ledger produces the next block: block time advances
Tick ==
    /\ now < MaxTime
    /\ now' = now + 1
    /\ res' = BlankRes("tick")
    /\ UNCHANGED <<asks, asks__collection, asks__collection_price,
                   asks__seller, bids, params, ask_hooks, bid_hooks,
                   sale_hooks, held, nft_out, listings>>

Next ==
    \/ ReceiveNft
    \/ RemoveAsk
    \/ UpdateAskPrice
    \/ SetBid
    \/ AcceptBid
    \/ UpdateParams
    \/ Tick

Spec == Init /\ [][Next]_vars

\* the same machine with one more listing: the runs in which a key is
\* listed a second time
NextRelist ==
    \/ ReceiveNftAgain
    \/ RemoveAsk
    \/ UpdateAskPrice
    \/ SetBid
    \/ AcceptBid
    \/ UpdateParams
    \/ Tick

SpecRelist == Init /\ [][NextRelist]_vars

\* the execute calls with governance registering and removing ask hooks,
\* under the parameters of instantiate: the runs in which the ask
\* notifications have a subscriber
NextHooks ==
    \/ ReceiveNft
    \/ RemoveAsk
    \/ UpdateAskPrice
    \/ SetBid
    \/ AcceptBid
    \/ AddAskHook
    \/ RemoveAskHook
    \/ Tick

SpecHooks == Init /\ [][NextHooks]_vars

\* an Ask of another token of the collection, as execute_set_ask stores it
\* for bob's Auction listing of t0 at price 2 under the instantiated params
OtherAsk ==
    [sale_type |-> "Auction", collection |-> "c1", token_id |-> "t0",
     seller |-> "bob", price |-> 2, funds_recipient |-> None,
     expires_at |-> 1, max_bidder |-> Contract, max_bid |-> 1]

\* the contract once that listing has been handled
InitOtherAsk ==
    /\ asks = {OtherAsk}
    /\ asks__collection = {IndexEntries(OtherAsk).collection}
    /\ asks__collection_price = {IndexEntries(OtherAsk).collection_price}
    /\ asks__seller = {IndexEntries(OtherAsk).seller}
    /\ bids = {}
    /\ params = [ask_expiry |-> [min |-> 0, max |-> 1],
                 bid_expiry |-> [min |-> 0, max |-> 1],
                 operators |-> <<"operator1">>,
                 min_price |-> 1,
                 listing_fee |-> 1]
    /\ ask_hooks = <<>>
    /\ bid_hooks = <<>>
    /\ sale_hooks = <<"hook1">>
    /\ now = 0
    /\ res = BlankRes("instantiate")
    /\ held = 0
    /\ nft_out = [k \in Keys |-> 0]
    /\ listings = 0

\* the same machine run next to that Ask: the calls of the model address
\* the keys of Keys, and the Ask of t0 is the other Ask in storage
SpecOtherAsk == InitOtherAsk /\ [][Next]_vars

\* the contract instantiated with sale_hook hook2, once sudo has registered
\* hook2 as ask hook and bid hook and hook3 as a second sale hook: every
\* notification has a subscriber, and every subscriber may fail
InitNotify ==
    /\ asks = {}
    /\ asks__collection = {}
    /\ asks__collection_price = {}
    /\ asks__seller = {}
    /\ bids = {}
    /\ params = [ask_expiry |-> [min |-> 0, max |-> 1],
                 bid_expiry |-> [min |-> 0, max |-> 1],
                 operators |-> <<"operator1">>,
                 min_price |-> 1,
                 listing_fee |-> 1]
    /\ ask_hooks = <<"hook2">>
    /\ bid_hooks = <<"hook2">>
    /\ sale_hooks = <<"hook2", "hook3">>
    /\ now = 0
    /\ res = BlankRes("instantiate")
    /\ held = 0
    /\ nft_out = [k \in Keys |-> 0]
    /\ listings = 0

\* the execute calls and the passing of time, under the parameters of
\* instantiate
NextNotify ==
    \/ ReceiveNft
    \/ RemoveAsk
    \/ UpdateAskPrice
    \/ SetBid
    \/ AcceptBid
    \/ Tick

SpecNotify == InitNotify /\ [][NextNotify]_vars

\* the contract once sudo has registered hook1 as ask hook
InitAskHook ==
    /\ asks = {}
    /\ asks__collection = {}
    /\ asks__collection_price = {}
    /\ asks__seller = {}
    /\ bids = {}
    /\ params = [ask_expiry |-> [min |-> 0, max |-> 1],
                 bid_expiry |-> [min |-> 0, max |-> 1],
                 operators |-> <<"operator1">>,
                 min_price |-> 1,
                 listing_fee |-> 1]
    /\ ask_hooks = <<"hook1">>
    /\ bid_hooks = <<>>
    /\ sale_hooks = <<"hook1">>
    /\ now = 0
    /\ res = BlankRes("instantiate")
    /\ held = 0
    /\ nft_out = [k \in Keys |-> 0]
    /\ listings = 0

\* the machine of Spec with that subscriber to the ask notifications
SpecAskHook == InitAskHook /\ [][Next]_vars

\* instantiate with any operators list: the list stored is
\* map_validate(msg.operators)
InitOperators ==
    \E operators \in OperatorInputs :
        /\ asks = {}
        /\ asks__collection = {}
        /\ asks__collection_price = {}
        /\ asks__seller = {}
        /\ bids = {}
        /\ params = [ask_expiry |-> [min |-> 0, max |-> 1],
                     bid_expiry |-> [min |-> 0, max |-> 1],
                     operators |-> map_validate(operators),
                     min_price |-> 1,
                     listing_fee |-> 1]
        /\ ask_hooks = <<>>
        /\ bid_hooks = <<>>
        /\ sale_hooks = <<"hook1">>
        /\ now = 0
        /\ res = [BlankRes("instantiate") EXCEPT !.operators = operators]
        /\ held = 0
        /\ nft_out = [k \in Keys |-> 0]
        /\ listings = 0

\* the governance operations on the parameters
NextOperators ==
    \/ AddOperator
    \/ RemoveOperator
    \/ UpdateParams

SpecOperators == InitOperators /\ [][NextOperators]_vars

(***************************************************************************)
(* Properties.  They read the stored records and the recorded Response     *)
(* directly, not through the operators of the model.                       *)
(***************************************************************************)
StoredAt(key) == {a \in asks : a.collection = key[1] /\ a.token_id = key[2]}

\* the same in the state a step leads to
StoredNext(key) == {a \in asks' : a.collection = key[1] /\ a.token_id = key[2]}

Range(seq) == {seq[i] : i \in 1..Len(seq)}

BankSends(messages) == {m \in Range(messages) : m.type = "bank_send"}

NftTransfers(messages) == {m \in Range(messages) : m.type = "transfer_nft"}

RECURSIVE SumMaxBid(_)
SumMaxBid(S) ==
    IF S = {} THEN 0
    ELSE LET a == CHOOSE x \in S : TRUE IN a.max_bid + SumMaxBid(S \ {a})

\* the bid money the stored Asks account for: the high bid of every
\* Auction Ask whose max_bidder is a real bidder
Owed ==
    SumMaxBid({a \in asks : a.sale_type = "Auction" /\ a.max_bidder # Contract})

\* the native amount attached to the recorded call (0 if none)
Attached(r) ==
    IF Len(r.funds) = 1 /\ r.funds[1].denom = NATIVE_DENOM
    THEN r.funds[1].amount ELSE 0

\* C1: escrow conservation: the bid funds held (bid payments received minus
\* refunds and payouts queued) equal the sum of max_bid over the Auction
\* asks with a real max_bidder.
C1_EscrowConservation == held = Owed

C3_Uniqueness ==
    /\ \A k \in Keys : Cardinality(StoredAt(k)) <= 1
    /\ \A a \in asks : <<a.collection, a.token_id>> \in Keys
    /\ asks__collection =
         {<<a.collection, <<a.collection, a.token_id>>>> : a \in asks}
    /\ asks__collection_price =
         {<<<<a.collection, a.price>>, <<a.collection, a.token_id>>>> : a \in asks}
    /\ asks__seller =
         {<<a.seller, <<a.collection, a.token_id>>>> : a \in asks}

\* the price of a stored Ask was just replaced
C3_Witness ==
    /\ res.op = "update_ask_price"
    /\ res.ok
    /\ \E a \in StoredAt(res.key) : a.price = res.arg.price.amount /\ a.price # a.max_bid

\* C4: a listing on a key at which an Ask exists is rejected and leaves
\* the existing Ask unchanged.
C4_DuplicateListingRejected ==
    [][(res'.op = "set_ask" /\ StoredAt(res'.key) # {})
        => (~res'.ok /\ asks' = asks)]_vars

\* a place_bid of exactly the price on a live FixedPrice Ask
IsMatchingBid(a) ==
    /\ res'.op = "set_bid"
    /\ a \in StoredAt(res'.key)
    /\ a.sale_type = "FixedPrice"
    /\ now < a.expires_at
    /\ res'.funds = <<Coin(a.price, NATIVE_DENOM)>>

\* the sale of Ask a to the sender of the recorded call, in one step
SettledInStep(a) ==
    /\ res'.ok
    /\ StoredNext(res'.key) = {}
    /\ bids' = bids
    /\ \E m \in BankSends(res'.messages) :
          m.to = (IF a.funds_recipient = None THEN a.seller ELSE a.funds_recipient)
    /\ NftTransfers(res'.messages) =
          {[type |-> "transfer_nft", to |-> a.collection,
            token_id |-> a.token_id, recipient |-> res'.sender]}

C6_SentinelAcceptReturnsAsset ==
    [][\A a \in asks :
          (/\ res'.op = "accept_bid"
           /\ res'.ok
           /\ a \in StoredAt(res'.key)
           /\ a.max_bidder = Contract)
          => /\ StoredNext(res'.key) = {}
             /\ BankSends(res'.messages) = {}
             /\ [type |-> "transfer_nft", to |-> a.collection,
                 token_id |-> a.token_id, recipient |-> a.seller]
                    \in Range(res'.messages)]_vars

\* C7: accept on an expired Auction Ask with a real max_bidder settles at
\* the stored max_bid with the stored max_bidder as buyer: the sale is
\* recorded at max_bid, the payouts are those of max_bid (all of it to the
\* funds recipient when there is no royalty, never more than it), the
\* asset goes to max_bidder, and the Ask is removed.
C7_AcceptSettlesAtMaxBid ==
    [][\A a \in asks :
          (/\ res'.op = "accept_bid"
           /\ res'.ok
           /\ a \in StoredAt(res'.key)
           /\ a.sale_type = "Auction"
           /\ a.max_bidder # Contract)
          => /\ StoredNext(res'.key) = {}
             /\ a.expires_at <= now
             /\ \E e \in Range(res'.events) :
                   /\ e.ty = "finalize-sale"
                   /\ e.price = a.max_bid
                   /\ e.buyer = a.max_bidder
             /\ NftTransfers(res'.messages) =
                   {[type |-> "transfer_nft", to |-> a.collection,
                     token_id |-> a.token_id, recipient |-> a.max_bidder]}
             /\ held - held' <= a.max_bid
             /\ res'.query.royalty = "none" =>
                   /\ held - held' = a.max_bid
                   /\ BankSends(res'.messages) =
                        {[type |-> "bank_send",
                          to |-> (IF a.funds_recipient = None THEN a.seller
                                  ELSE a.funds_recipient),
                          amount |-> a.max_bid]}]_vars

\* an auction with a real bidder was just settled by accept
C7_Witness ==
    /\ res.op = "accept_bid"
    /\ res.ok
    /\ \E e \in Range(res.events) : e.ty = "finalize-sale" /\ e.buyer # Contract

\* C8: accept succeeds only if the caller is the Ask's seller and the Ask
\* is expired (expires_at <= block time); a rejected accept leaves the Ask
\* and everything else in storage unchanged.
C8_AcceptOnlySellerAfterExpiry ==
    [][res'.op = "accept_bid" =>
        /\ res'.ok =>
            \E a \in StoredAt(res'.key) :
                /\ a.seller = res'.sender
                /\ a.expires_at <= now
        /\ ~res'.ok => /\ asks' = asks
                       /\ bids' = bids
                       /\ res'.messages = <<>>]_vars

\* the seller's accept before expires_at was rejected and the Ask is kept
C8_Witness ==
    /\ res.op = "accept_bid"
    /\ res.err = "AuctionNotEnded"
    /\ \E a \in StoredAt(res.key) : now < a.expires_at

\* C9: auction monotonicity: between its creation and its removal the
\* max_bid of an Auction Ask changes only by an accepted bid, and then to
\* the strictly greater amount attached to that bid.
C9_AuctionMonotonic ==
    [][\A a \in asks : \A b \in asks' :
          (/\ a.sale_type = "Auction"
           /\ b.collection = a.collection
           /\ b.token_id = a.token_id
           /\ res'.op # "set_ask")
          => \/ (b.max_bid = a.max_bid /\ b.max_bidder = a.max_bidder)
             \/ /\ res'.op = "set_bid"
                /\ res'.ok
                /\ b.max_bid = Attached(res')
                /\ b.max_bid > a.max_bid]_vars

\* a bid was accepted over an earlier real bid
C9_Witness ==
    /\ res.op = "set_bid"
    /\ res.ok
    /\ BankSends(res.messages) # {}
    /\ \E a \in StoredAt(res.key) :
          a.sale_type = "Auction" /\ a.max_bid = Attached(res)

\* C10: a place_bid on an Auction Ask with an amount <= the current
\* max_bid (the floor stored at creation included) is rejected: Ask and
\* Bid storage are unchanged and nothing, so no refund, is queued.
C10_LowBidRejected ==
    [][\A a \in asks :
          (/\ res'.op = "set_bid"
           /\ a \in StoredAt(res'.key)
           /\ a.sale_type = "Auction"
           /\ Len(res'.funds) = 1
           /\ res'.funds[1].denom = NATIVE_DENOM
           /\ res'.funds[1].amount <= a.max_bid)
          => /\ ~res'.ok
             /\ asks' = asks
             /\ bids' = bids
             /\ res'.messages = <<>>]_vars

\* a bid equal to the floor of a fresh auction was rejected
C10_Witness ==
    /\ res.op = "set_bid"
    /\ res.err = "InsufficientFundsSend"
    /\ \E a \in StoredAt(res.key) :
          a.max_bidder = Contract /\ Attached(res) = a.max_bid

\* the bank sends of an instruction bundle, in the order queued
BankSendSeq(messages) == SelectSeq(messages, LAMBDA m : m.type = "bank_send")

\* C11: refund on outbid: an accepted auction bid over a real max_bidder
\* queues exactly one bank send, to that bidder and of the previous max_bid;
\* over the sentinel it queues none; afterwards the Ask's max_bidder and
\* max_bid are the new bidder and the attached amount, its other fields kept.
C11_RefundOnOutbid ==
    [][\A a \in asks :
          (/\ res'.op = "set_bid"
           /\ res'.ok
           /\ a \in StoredAt(res'.key)
           /\ a.sale_type = "Auction")
          => /\ BankSendSeq(res'.messages) =
                   (IF a.max_bidder # Contract
                    THEN <<[type |-> "bank_send", to |-> a.max_bidder,
                            amount |-> a.max_bid]>>
                    ELSE <<>>)
             /\ StoredNext(res'.key) =
                   {[a EXCEPT !.max_bidder = res'.sender,
                              !.max_bid = Attached(res')]}]_vars

\* bob's bid replaced alice's and queued her refund
C11_Witness ==
    /\ res.op = "set_bid"
    /\ res.ok
    /\ res.sender = "bob"
    /\ \E m \in BankSends(res.messages) : m.to = "alice" /\ m.amount = 2
    /\ \E a \in StoredAt(res.key) : a.max_bidder = "bob" /\ a.max_bid = 3

\* C12: a place_bid on a FixedPrice Ask with an attached amount other than
\* the price is rejected and the Ask stays as it is; no place_bid on a
\* FixedPrice Ask writes Bid storage or changes the Ask's max_bidder/max_bid.
C12_FixedPriceMismatchRejected ==
    [][\A a \in asks :
          (/\ res'.op = "set_bid"
           /\ a \in StoredAt(res'.key)
           /\ a.sale_type = "FixedPrice")
          => /\ bids' = bids
             /\ \A b \in StoredNext(res'.key) :
                   b.max_bidder = a.max_bidder /\ b.max_bid = a.max_bid
             /\ res'.funds # <<Coin(a.price, NATIVE_DENOM)>> =>
                   /\ ~res'.ok
                   /\ asks' = asks
                   /\ res'.messages = <<>>]_vars

\* a payment above the list price of a live FixedPrice Ask was rejected
C12_Witness ==
    /\ res.op = "set_bid"
    /\ res.err = "InvalidPrice"
    /\ \E a \in StoredAt(res.key) :
          a.sale_type = "FixedPrice" /\ Attached(res) > a.price

SaleEvents(events) == {e \in Range(events) : e.ty = "finalize-sale"}

\* C14: payout conservation: in every settlement at sale price p the
\* royalty payout plus the seller payout is at most p, and when the
\* collection reports no royalty the one payout queued is exactly p.
C14_PayoutConservation ==
    [][\A e \in SaleEvents(res'.events) :
          LET sends == BankSendSeq(res'.messages) IN
          IF res'.query.royalty = "some"
          THEN /\ Len(sends) = 2
               /\ sends[1].amount + sends[2].amount <= e.price
          ELSE /\ Len(sends) = 1
               /\ sends[1].amount = e.price]_vars

\* a settlement with royalty whose two payouts fall short of the price
C14_Witness ==
    /\ res.ok
    /\ res.query.royalty = "some"
    /\ res.query.royalty_rate < DecimalFractional
    /\ \E e \in SaleEvents(res.events) :
          /\ e.price > 1
          /\ Len(BankSendSeq(res.messages)) = 2
          /\ BankSendSeq(res.messages)[1].amount > 0
          /\ BankSendSeq(res.messages)[1].amount
               + BankSendSeq(res.messages)[2].amount < e.price

\* C15: royalty split: in a settlement at price p with royalty terms of a
\* rate in [0,1), the royalty recipient is paid floor(p * rate) and the
\* funds recipient exactly p minus that amount.
C15_RoyaltySplit ==
    [][\A e \in SaleEvents(res'.events) :
          (res'.query.royalty = "some" /\ res'.query.royalty_rate < DecimalFractional)
          => LET sends == BankSendSeq(res'.messages)
                 royalty_amount ==
                     (e.price * res'.query.royalty_rate) \div DecimalFractional
             IN
             /\ Len(sends) = 2
             /\ sends[1].to = res'.query.address
             /\ sends[1].amount = royalty_amount
             /\ sends[2].amount = e.price - royalty_amount]_vars

\* C16: the seller-side payout of every settlement (the last bank send
\* queued) is addressed to the Ask's funds_recipient when one is set and to
\* its seller otherwise; without royalty it is the only payout and carries
\* the full sale price.
C16_PayoutRecipient ==
    [][\A a \in StoredAt(res'.key) : \A e \in SaleEvents(res'.events) :
          LET sends == BankSendSeq(res'.messages)
              payee == IF a.funds_recipient = None THEN a.seller
                       ELSE a.funds_recipient
          IN
          /\ Len(sends) >= 1
          /\ sends[Len(sends)].to = payee
          /\ res'.query.royalty = "none" =>
                sends = <<[type |-> "bank_send", to |-> payee,
                           amount |-> e.price]>>]_vars

\* a settlement with royalty paid the seller share to the funds_recipient
C16_Witness ==
    /\ res.ok
    /\ res.query.royalty = "some"
    /\ SaleEvents(res.events) # {}
    /\ Len(BankSendSeq(res.messages)) = 2
    /\ BankSendSeq(res.messages)[2].to = "carol"
    /\ BankSendSeq(res.messages)[2].amount > 0

\* C17: remove succeeds only for the Ask's seller and a FixedPrice Ask;
\* then the Ask is deleted, one asset transfer back to the seller is
\* queued, and every registered ask hook is sent the Delete notification
\* of that Ask.  remove on an Auction Ask is rejected whoever calls and
\* whatever its bids and expiry, and the Ask stays as it is.
C17_RemoveOnlyFixedPriceBySeller ==
    [][res'.op = "remove_ask" =>
        /\ res'.ok =>
            \E a \in StoredAt(res'.key) :
                /\ a.seller = res'.sender
                /\ a.sale_type = "FixedPrice"
                /\ StoredNext(res'.key) = {}
                /\ NftTransfers(res'.messages) =
                      {[type |-> "transfer_nft", to |-> a.collection,
                        token_id |-> a.token_id, recipient |-> a.seller]}
                /\ BankSends(res'.messages) = {}
                /\ \A i \in 1..Len(ask_hooks) :
                      \E m \in Range(res'.messages) :
                          /\ m.type = "hook"
                          /\ m.to = ask_hooks[i]
                          /\ m.payload.action = "Delete"
                          /\ m.payload.ask = a
        /\ (\E a \in StoredAt(res'.key) : a.sale_type = "Auction")
           => /\ ~res'.ok
              /\ asks' = asks
              /\ bids' = bids
              /\ res'.messages = <<>>]_vars

\* the seller withdrew a FixedPrice Ask while an ask hook was registered
C17_Witness ==
    /\ res.op = "remove_ask"
    /\ res.ok
    /\ asks = {}
    /\ ask_hooks # <<>>
    /\ \E m \in Range(res.messages) : m.type = "hook" /\ m.to = ask_hooks[1]

\* C18: update_price succeeds only if the caller is the Ask's seller, the
\* Ask is not expired, and the new price is non-zero, in the native
\* denomination and at least min_price; a rejected update_price leaves
\* the stored Ask, its price included, as it was.
C18_UpdatePriceGuards ==
    [][res'.op = "update_ask_price" =>
        /\ res'.ok =>
            /\ \E a \in StoredAt(res'.key) :
                  /\ a.seller = res'.sender
                  /\ now < a.expires_at
            /\ res'.arg.price.amount # 0
            /\ res'.arg.price.denom = NATIVE_DENOM
            /\ res'.arg.price.amount >= params.min_price
        /\ ~res'.ok => /\ asks' = asks
                       /\ res'.messages = <<>>]_vars

\* a new price below the raised floor was rejected and the Ask kept
C18_Witness ==
    /\ res.op = "update_ask_price"
    /\ res.err = "PriceTooSmall"
    /\ params.min_price > 1
    /\ \E a \in StoredAt(res.key) : now < a.expires_at

\* C19: a successful update_price changes the price of the Ask at the key
\* and its by-collection+price index entry, and nothing else: the Ask's
\* other fields, every other Ask, the Bid records and the other two
\* indices stay as they were, for FixedPrice and Auction Asks alike.
C19_UpdatePriceFrame ==
    [][\A a \in StoredAt(res'.key) :
          (res'.op = "update_ask_price" /\ res'.ok)
          => LET new_price == res'.arg.price.amount
                 k == <<a.collection, a.token_id>>
             IN
             /\ asks' = (asks \ {a}) \cup {[a EXCEPT !.price = new_price]}
             /\ bids' = bids
             /\ asks__collection' = asks__collection
             /\ asks__seller' = asks__seller
             /\ asks__collection_price' =
                   (asks__collection_price \ {<<<<a.collection, a.price>>, k>>})
                       \cup {<<<<a.collection, new_price>>, k>>}]_vars

\* the list price of an Auction Ask with a real high bid was just changed
\* while another Ask is stored
C19_Witness ==
    /\ res.op = "update_ask_price"
    /\ res.ok
    /\ bids # {}
    /\ \E o \in asks : <<o.collection, o.token_id>> # res.key
    /\ \E a \in StoredAt(res.key) :
          /\ a.sale_type = "Auction"
          /\ a.max_bidder # Contract
          /\ a.price = res.arg.price.amount
          /\ a.price < a.max_bid

\* C20: create stores an Ask only for a price that is non-zero, in the
\* native denomination and at least min_price; a rejected create stores
\* no Ask.
C20_CreateValidatesPrice ==
    [][res'.op = "set_ask" =>
        /\ res'.ok =>
            /\ res'.arg.price.amount # 0
            /\ res'.arg.price.denom = NATIVE_DENOM
            /\ res'.arg.price.amount >= params.min_price
            /\ \E a \in StoredNext(res'.key) : a.price = res'.arg.price.amount
        /\ ~res'.ok => asks' = asks]_vars

\* a listing priced below the raised floor was rejected, nothing stored
C20_Witness ==
    /\ res.op = "set_ask"
    /\ res.err = "PriceTooSmall"
    /\ params.min_price > 1
    /\ asks = {}

\* C21: create accepts an expiry duration only when
\* ask_expiry.min < expires <= ask_expiry.max (the minimum itself is
\* rejected, the maximum accepted), and the Ask it stores has
\* expires_at = block time + expires.
C21_CreateExpiryRange ==
    [][(res'.op = "set_ask" /\ res'.ok) =>
          /\ params.ask_expiry.min < res'.arg.expires
          /\ res'.arg.expires <= params.ask_expiry.max
          /\ \E a \in StoredNext(res'.key) :
                a.expires_at = now + res'.arg.expires]_vars

\* a listing with expires equal to ask_expiry.max was stored after the
\* first block, expiring at block time + expires
C21_Witness ==
    /\ res.op = "set_ask"
    /\ res.ok
    /\ res.arg.expires = params.ask_expiry.max
    /\ now > 0
    /\ \E a \in StoredAt(res.key) : a.expires_at = now + res.arg.expires

\* C22: create succeeds only when the payment attached to it is exactly
\* params.listing_fee in the native denom; with any other amount (or a
\* coin of another denom) the call is rejected and no Ask is stored.
C22_CreateListingFee ==
    [][res'.op = "set_ask" =>
          /\ res'.ok =>
                /\ \A i \in 1..Len(res'.funds) : res'.funds[i].denom = NATIVE_DENOM
                /\ Attached(res') = params.listing_fee
          /\ ~res'.ok => asks' = asks]_vars

\* a listing was rejected for its fee and the registry is still empty
C22_Witness ==
    /\ res.op = "set_ask"
    /\ res.err = "InvalidListingFee"
    /\ asks = {}

\* C23: every newly created Ask, FixedPrice or Auction, is stored with
\* max_bidder the marketplace's own address, max_bid the min_price in force
\* at creation and seller the depositor named in the deposit notification,
\* and a Create notification of that Ask is queued for every registered
\* ask hook.
C23_NewAskHasNoBid ==
    [][(res'.op = "set_ask" /\ res'.ok) =>
          \E a \in asks' :
              /\ StoredNext(res'.key) = {a}
              /\ a.sale_type = res'.arg.sale_type
              /\ a.max_bidder = Contract
              /\ a.max_bid = params.min_price
              /\ a.seller = res'.arg.rcv_sender
              /\ Len(res'.messages) = Len(ask_hooks)
              /\ \A i \in 1..Len(ask_hooks) :
                    /\ res'.messages[i].type = "hook"
                    /\ res'.messages[i].to = ask_hooks[i]
                    /\ res'.messages[i].id = HookReply_Ask
                    /\ res'.messages[i].payload = [ask |-> a, action |-> "Create"]]_vars

\* an Auction Ask was created under a min_price of 2 while an ask hook was
\* registered, and the hook was sent its notification
C23_Witness ==
    /\ res.op = "set_ask"
    /\ res.ok
    /\ res.arg.sale_type = "Auction"
    /\ params.min_price = 2
    /\ ask_hooks # <<>>
    /\ \E m \in Range(res.messages) : m.type = "hook" /\ m.payload.action = "Create"

FailedHooks(r) == {i \in 1..Len(r.replies) : r.replies[i] # <<>>}

\* C25: every ask, bid and sale notification is queued as a reply-on-error
\* call, and reply answers the failure of any of them with success and a
\* diagnostic attribute only: no call is rejected for a failed
\* notification, and the call keeps its state changes (Ask created, updated
\* or removed, bid recorded, sale settled) and its transfers whatever
\* subset of the subscribers fails.
C25_HookFailureContained ==
    [][/\ \A m \in Range(res'.messages) :
             m.type = "hook" =>
                 /\ m.reply_on = "error"
                 /\ m.id \in {HookReply_Ask, HookReply_Sale, HookReply_Bid}
       /\ res'.err # "SubMsg"
       /\ FailedHooks(res') # {} =>
             /\ res'.ok
             /\ \A i \in FailedHooks(res') :
                   /\ res'.messages[i].type = "hook"
                   /\ Len(res'.replies[i]) = 1
                   /\ res'.replies[i][1].action \in
                         {"ask-hook-failed", "sale-hook-failed", "bid-hook-failed"}
             /\ held' = held + (IF res'.op = "set_bid" THEN Attached(res') ELSE 0)
                             - SumBank(res'.messages)
             /\ res'.op = "set_ask" =>
                   \E a \in StoredNext(res'.key) :
                       /\ a.seller = res'.arg.rcv_sender
                       /\ a.price = res'.arg.price.amount
                       /\ a.sale_type = res'.arg.sale_type
             /\ res'.op = "update_ask_price" =>
                   \E a \in StoredNext(res'.key) : a.price = res'.arg.price.amount
             /\ res'.op = "remove_ask" =>
                   \E a \in StoredAt(res'.key) :
                       /\ StoredNext(res'.key) = {}
                       /\ NftTransfers(res'.messages) =
                             {[type |-> "transfer_nft", to |-> a.collection,
                               token_id |-> a.token_id, recipient |-> a.seller]}
             /\ res'.op = "set_bid" =>
                   \E a \in StoredAt(res'.key) :
                       IF a.sale_type = "FixedPrice"
                       THEN /\ StoredNext(res'.key) = {}
                            /\ NftTransfers(res'.messages) =
                                  {[type |-> "transfer_nft", to |-> a.collection,
                                    token_id |-> a.token_id,
                                    recipient |-> res'.sender]}
                       ELSE \E b \in StoredNext(res'.key) :
                                /\ b.max_bidder = res'.sender
                                /\ b.max_bid = Attached(res')
             /\ res'.op = "accept_bid" =>
                   \E a \in StoredAt(res'.key) :
                       /\ StoredNext(res'.key) = {}
                       /\ NftTransfers(res'.messages) =
                             {[type |-> "transfer_nft", to |-> a.collection,
                               token_id |-> a.token_id,
                               recipient |-> a.max_bidder]}]_vars

\* a FixedPrice sale was settled while both sale hooks failed
C25_Witness ==
    /\ res.op = "set_bid"
    /\ res.ok
    /\ StoredAt(res.key) = {}
    /\ Cardinality(FailedHooks(res)) = 2
    /\ NftTransfers(res.messages) # {}
    /\ BankSends(res.messages) # {}

\* Ask a is gone from the registry after the step: its key is empty, or
\* store_ask has put a newly created Ask in its place
LeavesRegistry(a) ==
    \/ StoredNext(<<a.collection, a.token_id>>) = {}
    \/ /\ res'.op = "set_ask"
       /\ res'.ok
       /\ res'.key = <<a.collection, a.token_id>>

\* C26: an Auction Ask is never removed from the registry while the
\* current time is before its expires_at, whoever calls.
C26_AuctionRunsToExpiry ==
    [][\A a \in asks :
          (a.sale_type = "Auction" /\ now < a.expires_at) => ~LeavesRegistry(a)]_vars

\* C27: the stored operators list is sorted and free of duplicates in
\* every state reached from instantiate by AddOperator, RemoveOperator and
\* UpdateParams.
C27_OperatorsSortedDistinct ==
    \A i, j \in 1..Len(params.operators) :
        i < j => AddrRank(params.operators[i]) < AddrRank(params.operators[j])

\* C28: map_validate returns the distinct addresses of its input in
\* ascending order: every input address once, no other address, and the
\* same list for every input with the same addresses, however ordered or
\* repeated.
C28_MapValidate ==
    res.op = "instantiate" =>
        /\ Range(params.operators) = Range(res.operators)
        /\ Len(params.operators) = Cardinality(Range(res.operators))
        /\ \A i, j \in 1..Len(params.operators) :
              i < j => AddrRank(params.operators[i]) < AddrRank(params.operators[j])
        /\ \A other \in OperatorInputs :
              Range(other) = Range(res.operators)
                  => map_validate(other) = params.operators

\* instantiate was given three addresses out of order with one repeated
C28_Witness ==
    /\ res.op = "instantiate"
    /\ res.operators = <<"operator3", "operator1", "operator3">>
    /\ params.operators = <<"operator1", "operator3">>

\* C29: an Ask leaves the registry only by a place_bid of its price on a
\* FixedPrice Ask, by its seller's remove of a FixedPrice Ask, or by its
\* seller's accept after expiry; while it stays, its seller, sale_type,
\* collection, token_id and expires_at do not change.
C29_AskLifecycle ==
    [][\A a \in asks :
          /\ LeavesRegistry(a) =>
                /\ res'.ok
                /\ res'.key = <<a.collection, a.token_id>>
                /\ \/ /\ res'.op = "set_bid"
                      /\ a.sale_type = "FixedPrice"
                      /\ Attached(res') = a.price
                   \/ /\ res'.op = "remove_ask"
                      /\ a.sale_type = "FixedPrice"
                      /\ res'.sender = a.seller
                   \/ /\ res'.op = "accept_bid"
                      /\ res'.sender = a.seller
                      /\ a.expires_at <= now
          /\ ~LeavesRegistry(a) =>
                \E b \in asks' :
                    /\ StoredNext(<<a.collection, a.token_id>>) = {b}
                    /\ b.seller = a.seller
                    /\ b.sale_type = a.sale_type
                    /\ b.collection = a.collection
                    /\ b.token_id = a.token_id
                    /\ b.expires_at = a.expires_at]_vars

\* C30: a FixedPrice Ask is created with max_bidder the contract's own
\* address and max_bid the min_price in force, and no bid, price update or
\* governance update changes either field while the Ask is stored.
C30_FixedPriceBidFieldsInert ==
    [][/\ (res'.op = "set_ask" /\ res'.ok /\ res'.arg.sale_type = "FixedPrice") =>
             \A b \in StoredNext(res'.key) :
                 b.max_bidder = Contract /\ b.max_bid = params.min_price
       /\ \A a \in asks :
             (a.sale_type = "FixedPrice" /\ ~LeavesRegistry(a)) =>
                 \A b \in StoredNext(<<a.collection, a.token_id>>) :
                     b.max_bidder = a.max_bidder /\ b.max_bid = a.max_bid
       /\ \A b \in asks' :
             b.sale_type = "FixedPrice" => b.max_bidder = Contract]_vars

\* the price of a FixedPrice Ask was updated after governance had raised
\* min_price, and the Ask still carries the min_price of its creation
C30_Witness ==
    /\ res.op = "update_ask_price"
    /\ res.ok
    /\ params.min_price = 2
    /\ \E a \in StoredAt(res.key) :
          /\ a.sale_type = "FixedPrice"
          /\ a.max_bidder = Contract
          /\ a.max_bid = 1

\* C31: a settlement queues its instructions in this order: the royalty
\* payout if there is one, the payout to the seller side, the asset
\* transfer to the buyer, then one sale notification per registered sale
\* hook in registration order; an accepted auction bid queues the refund of
\* the outbid bidder, if any, before its bid notifications.
C31_InstructionOrder ==
    [][/\ \A e \in SaleEvents(res'.events) : \A a \in StoredAt(res'.key) :
             LET m == res'.messages
                 n == IF res'.query.royalty = "some" THEN 2 ELSE 1
                 payee == IF a.funds_recipient = None THEN a.seller
                          ELSE a.funds_recipient
             IN
             /\ Len(m) = n + 1 + Len(sale_hooks)
             /\ \A i \in 1..n : m[i].type = "bank_send"
             /\ n = 2 => m[1].to = res'.query.address
             /\ m[n].to = payee
             /\ m[n + 1] = [type |-> "transfer_nft", to |-> a.collection,
                            token_id |-> a.token_id, recipient |-> e.buyer]
             /\ \A i \in 1..Len(sale_hooks) :
                   /\ m[n + 1 + i].type = "hook"
                   /\ m[n + 1 + i].to = sale_hooks[i]
                   /\ m[n + 1 + i].id = HookReply_Sale
       /\ (res'.op = "set_bid" /\ res'.ok /\ SaleEvents(res'.events) = {}) =>
             LET m == res'.messages
                 n == Len(BankSendSeq(m))
             IN
             /\ Len(m) = n + Len(bid_hooks)
             /\ \A i \in 1..n : m[i].type = "bank_send"
             /\ \A i \in 1..Len(bid_hooks) :
                   /\ m[n + i].type = "hook"
                   /\ m[n + i].to = bid_hooks[i]
                   /\ m[n + i].id = HookReply_Bid]_vars

\* a sale with royalty was settled while two sale hooks were registered:
\* five instructions were queued
C31_Witness ==
    /\ res.ok
    /\ SaleEvents(res.events) # {}
    /\ res.query.royalty = "some"
    /\ Len(sale_hooks) = 2
    /\ Len(res.messages) = 5
    /\ res.messages[1].amount > 0

\* the Bid records of the next state at the key of record b
BidsNextAt(b) ==
    {x \in bids' : /\ x.collection = b.collection
                   /\ x.token_id = b.token_id
                   /\ x.bidder = b.bidder}

\* C32: the Bid map changes only in an accepted bid on an Auction Ask, which
\* writes the record of (collection, token_id, bidder) with the attached
\* amount in place of that bidder's earlier record; no step deletes a Bid
\* record; and an Auction Ask with a real max_bidder has the Bid record of
\* that bidder, with price equal to its max_bid.
C32_BidRecords ==
    [][/\ \A a \in StoredAt(res'.key) :
             LET written == [collection |-> a.collection, token_id |-> a.token_id,
                             bidder |-> res'.sender, price |-> Attached(res')]
             IN
             (res'.op = "set_bid" /\ res'.ok /\ a.sale_type = "Auction") =>
                 /\ BidsNextAt(written) = {written}
                 /\ \A b \in bids : b.bidder # res'.sender => b \in bids'
       /\ bids' # bids =>
             /\ res'.op = "set_bid"
             /\ res'.ok
             /\ \E a \in StoredAt(res'.key) : a.sale_type = "Auction"
       /\ \A b \in bids : BidsNextAt(b) # {}
       /\ \A a \in asks' :
             (a.sale_type = "Auction" /\ a.max_bidder # Contract) =>
                 [collection |-> a.collection, token_id |-> a.token_id,
                  bidder |-> a.max_bidder, price |-> a.max_bid] \in bids']_vars

\* a bidder outbid their own earlier bid, and the one record they have
\* carries the new amount
C32_Witness ==
    /\ res.op = "set_bid"
    /\ res.ok
    /\ \E m \in BankSends(res.messages) : m.to = res.sender
    /\ \E b \in bids : b.bidder = res.sender /\ b.price = Attached(res)
    /\ Cardinality({b \in bids : b.bidder = res.sender}) = 1

\* C33: an Ask is created only by a deposit notification sent by the
\* collection contract named in the listing, and an asset transfer is only
\* ever queued to the seller of the stored Ask or to the buyer of its
\* settled sale.
C33_Custody ==
    [][/\ (res'.op = "set_ask" /\ res'.ok) => res'.sender = res'.key[1]
       /\ \A m \in NftTransfers(res'.messages) :
             \E a \in StoredAt(res'.key) :
                 /\ m.to = a.collection
                 /\ m.token_id = a.token_id
                 /\ \/ m.recipient = a.seller
                    \/ \E e \in SaleEvents(res'.events) : m.recipient = e.buyer]_vars

\* the bid money the Ask at a key holds for its bidder
Escrowed(key) ==
    SumMaxBid({a \in StoredAt(key) :
                  a.sale_type = "Auction" /\ a.max_bidder # Contract})

\* C34: solvency: the refunds and payouts queued so far never exceed the
\* bid and purchase payments received, and the bank sends of one call are
\* covered by the payment attached to it plus the bid held for the Ask it
\* addresses.
C34_Solvency ==
    [][/\ held' >= 0
       /\ SumBank(res'.messages)
             <= (IF res'.op = "set_bid" /\ res'.ok THEN Attached(res') ELSE 0)
                + Escrowed(res'.key)
       /\ \A m \in BankSends(res'.messages) :
             \/ res'.op = "set_bid" /\ m.amount <= Attached(res')
             \/ m.amount <= Escrowed(res'.key)]_vars

\* an auction was settled by accept and the whole bid held was paid out
C34_Witness ==
    /\ res.op = "accept_bid"
    /\ res.ok
    /\ SumBank(res.messages) > 0
    /\ held = 0

\* C35: once the block time has reached the expires_at of a stored Ask, a
\* step either leaves the record at its key exactly as it is or removes
\* it, and a settlement of that Ask has the max_bidder recorded then as
\* its buyer.
C35_FrozenAfterExpiry ==
    [][\A a \in asks :
          a.expires_at <= now =>
              /\ StoredNext(<<a.collection, a.token_id>>) \subseteq {a}
              /\ res'.key = <<a.collection, a.token_id>> =>
                    \A e \in SaleEvents(res'.events) : e.buyer = a.max_bidder]_vars

\* an accept that the contract carries out, as the change of the registry
\* and the record of the call: the seller's call without funds on an
\* expired Ask, with an answer of the collection that lets a settlement
\* through, ends in Ok and takes the Ask out
SellerAccepts ==
    \E a \in asks :
        /\ is_expired(a, now)
        /\ asks' = asks \ {a}
        /\ \E query \in QueryResults :
              LET out == execute_accept_bid(Store, Hooks, now, a.seller, <<>>,
                                            a.collection, a.token_id, query)
              IN
              /\ out.ok
              /\ res' = [BlankRes("accept_bid") EXCEPT
                            !.sender = a.seller,
                            !.key = <<a.collection, a.token_id>>,
                            !.query = query,
                            !.messages = out.messages,
                            !.events = out.events,
                            !.replies = [i \in 1..Len(out.messages) |-> <<>>]]

\* blocks keep coming and the seller of an expired Ask does call accept
SpecLive ==
    Init /\ [][Next]_vars /\ WF_vars(Tick) /\ WF_<<asks, res>>(SellerAccepts)

\* the asset listed under key is held by the contract
InEscrow(key) == listings > 0 /\ nft_out[key] = 0

\* an Auction Ask with a real bid is stored at key and expires within the
\* block times of the model
BidAwaitsRelease(key) ==
    \E a \in StoredAt(key) :
        /\ a.sale_type = "Auction"
        /\ a.max_bidder # Contract
        /\ a.expires_at <= MaxTime

\* the call just made settled the Ask at key: it is gone, money was sent
\* and the asset was transferred
Released(key) ==
    /\ res.op = "accept_bid"
    /\ res.ok
    /\ res.key = key
    /\ StoredAt(key) = {}
    /\ BankSends(res.messages) # {}
    /\ \E m \in NftTransfers(res.messages) : m.token_id = key[2]

\* every Auction Ask with a real bid is settled in the end
C36_BidReleased == \A key \in Keys : BidAwaitsRelease(key) ~> Released(key)

\* C36: with blocks coming and the seller accepting after expiry, every
\* Auction Ask with a real bid is removed in the end with money paid out
\* and the asset transferred, every listed asset leaves escrow in the end,
\* and an asset in escrow always has a stored Ask through which it can be
\* released.
C36_EscrowRelease ==
    /\ C36_BidReleased
    /\ \A key \in Keys :
          (\E a \in StoredAt(key) : a.expires_at <= MaxTime) ~> ~InEscrow(key)
    /\ [](\A key \in Keys : InEscrow(key) => StoredAt(key) # {})

\* C37: every sale notification of a call carries as its price the price
\* of the sale-finalized event of that call, the amount the buyer paid, in
\* a fixed-price sale and in an auction settlement alike.
C37_SaleHookPrice ==
    [][\A e \in SaleEvents(res'.events) :
          \A i \in 1..Len(res'.messages) :
              (res'.messages[i].type = "hook" /\ res'.messages[i].id = HookReply_Sale)
              => res'.messages[i].payload.price = e.price]_vars

\* the Ask execute_set_ask stores for alice's Auction listing of t1 at
\* price 3 under the instantiated params
ReserveAsk ==
    [sale_type |-> "Auction", collection |-> "c1", token_id |-> "t1",
     seller |-> "alice", price |-> 3, funds_recipient |-> None,
     expires_at |-> 1, max_bidder |-> Contract, max_bid |-> 1]

\* the contract once that listing has been handled
InitReserve ==
    /\ asks = {ReserveAsk}
    /\ asks__collection = {IndexEntries(ReserveAsk).collection}
    /\ asks__collection_price = {IndexEntries(ReserveAsk).collection_price}
    /\ asks__seller = {IndexEntries(ReserveAsk).seller}
    /\ bids = {}
    /\ params = [ask_expiry |-> [min |-> 0, max |-> 1],
                 bid_expiry |-> [min |-> 0, max |-> 1],
                 operators |-> <<"operator1">>,
                 min_price |-> 1,
                 listing_fee |-> 1]
    /\ ask_hooks = <<>>
    /\ bid_hooks = <<>>
    /\ sale_hooks = <<"hook1">>
    /\ now = 0
    /\ res = BlankRes("instantiate")
    /\ held = 0
    /\ nft_out = [k \in Keys |-> 0]
    /\ listings = 1

\* the execute calls on that Ask and the governance updates, with no
\* further listing
NextReserve ==
    \/ RemoveAsk
    \/ UpdateAskPrice
    \/ SetBid
    \/ AcceptBid
    \/ UpdateParams
    \/ Tick

SpecReserve == InitReserve /\ [][NextReserve]_vars

\* C38: a bid accepted on an Auction Ask is at least the Ask's price at
\* that time, at least the configured min_price, and above the Ask's
\* max_bid; a bid below the price is rejected even when it is above
\* max_bid, so the price the seller last set decides which bids pass.
C38_AuctionBidFloor ==
    [][\A a \in asks :
          (/\ a.sale_type = "Auction"
           /\ res'.op = "set_bid"
           /\ res'.ok
           /\ a \in StoredAt(res'.key))
          => /\ Attached(res') >= a.price
             /\ Attached(res') >= params.min_price
             /\ Attached(res') > a.max_bid]_vars

\* a bid of 2 was accepted as the first bid on the Auction Ask listed at 3:
\* the seller had lowered the price to 2 or less
C38_Witness ==
    /\ res.op = "set_bid"
    /\ res.ok
    /\ Attached(res) = 2
    /\ Cardinality(bids) = 1
    /\ listings = 1
    /\ \E a \in StoredAt(res.key) :
          a.sale_type = "Auction" /\ a.max_bid = 2 /\ a.price <= 2

====
